---- MODULE Spec2Model ----
(***************************************************************************)
(* scripts/hooks/validate-changelog.py as a state machine.                 *)
(*                                                                         *)
(* The file's text is a sequence of lexical tokens.  The token "\n" is the *)
(* newline character, " " is one blank; every other token is a maximal run *)
(* of characters that the script's regular expressions treat alike         *)
(* ("## [" is the four characters that open a version header, "2024" a run *)
(* of four digits, "Added" a run of word characters, ...).  The regular    *)
(* expressions are translated to matchers over token positions, so that    *)
(* anchoring (^ with re.MULTILINE), matching across newlines ([^\]]+, \s+, *)
(* re.DOTALL) and non-overlapping scanning (findall) behave as in Python.  *)
(***************************************************************************)
EXTENDS Naturals, Sequences, FiniteSets, TLC

VARIABLES
    exists,         \* changelog_path.exists()
    content,        \* the file's text (tokens)
    pc,             \* position in validate_changelog / __main__
    lines,          \* content.split('\n')
    errors,         \* errors
    warnings_list,  \* warnings_list
    versions,       \* version_pattern.findall(content): <<version, date>> pairs
    idx,            \* position of the running for loop over a diagnostics list
    out,            \* what has been printed, in order
    ret,            \* <<>> until validate_changelog returns, then <<value>>
    exit_code       \* <<>> until sys.exit, then <<code>>

vars == <<exists, content, pc, lines, errors, warnings_list, versions, idx,
          out, ret, exit_code>>

-----------------------------------------------------------------------------
(* Bounds and input alphabets *)

\* Longest document, in lines.
MaxLines == 4

NL == "\n"

L_Blank == <<>>
L_Title == <<"# Changelog">>
L_TitleRefs == <<"# Changelog", " ", "keepachangelog.com", " ", "semver.org">>
L_Indented == <<" ", "# Changelog">>
L_Unreleased == <<"## [", "Unreleased", "]">>
L_Version == <<"## [", "1.0.0", "]">>
L_VersionDated == <<"## [", "1.0.0", "]", " ", "-", " ", "2024", "-", "01", "-", "15">>
L_VersionBadDate == <<"## [", "0.9.0", "]", " ", "-", " ", "2024", "/", "01", "/", "15">>
L_Open == <<"## [", "WIP">>
L_InlineUnreleased == <<"see", " ", "## [", "Unreleased", "]">>
L_InlineRef == <<"see", " ", "## [", "note", "]">>
L_Added == <<"### ", "Added">>
L_Invalid == <<"### ", "Invalid">>
L_Bullet == <<"-", " ", "entry">>
L_DateBullet == <<"-", " ", "2024", "-", "13", "-", "45">>
L_Star == <<"*", " ", "entry">>
L_LinkUnreleased == <<"[", "Unreleased", "]", ": ", "https://", "compare">>
L_LinkHttp == <<"[", "Unreleased", "]", ": ", "http://", "compare">>
L_LinkVersion == <<"[", "1.0.0", "]", ": ", "https://", "compare">>
L_LinkInline == <<"see", " ", "[", "Unreleased", "]", ": ", "https://", "compare">>

ReportLines == {L_Blank, L_TitleRefs, L_Indented, L_Unreleased, L_Added, L_Bullet, L_Star}
SectionLines == {L_Blank, L_Title, L_Unreleased, L_Version, L_VersionDated,
                 L_VersionBadDate, L_Open}
LinkLines == {L_DateBullet, L_Unreleased, L_Version, L_LinkUnreleased, L_LinkHttp,
              L_LinkVersion, L_LinkInline}
UnreleasedLines == {L_Unreleased, L_Version, L_InlineUnreleased, L_InlineRef,
                    L_Added, L_Invalid, L_Bullet}

RECURSIVE Join(_)
\* '\n'.join(ls)
Join(ls) ==
    IF Len(ls) = 0 THEN <<>>
    ELSE IF Len(ls) = 1 THEN ls[1]
    ELSE ls[1] \o <<NL>> \o Join(Tail(ls))

\* Every text of 1..MaxLines lines drawn from alphabet.
Docs(alphabet) ==
    { Join(ls) : ls \in UNION { [1..n -> alphabet] : n \in 1..MaxLines } }

-----------------------------------------------------------------------------
(* Lexical classes *)

\* \s
Whitespace(t) == t \in {" ", NL}

\* \d{4} and \d{2}
Digits4 == {"2024"}
Digits2 == {"01", "13", "15", "45"}

\* \w+
Word(t) ==
    t \in {"Added", "Changed", "Deprecated", "Removed", "Fixed", "Security",
           "Invalid", "Unreleased", "WIP", "see", "note", "entry", "compare"}
          \cup Digits4 \cup Digits2

VALID_CATEGORIES == <<"Added", "Changed", "Deprecated", "Removed", "Fixed", "Security">>

\* ^ under re.MULTILINE: the start of the text or just after a newline
AtLineStart(s, p) == p = 1 \/ (p > 1 /\ p - 1 <= Len(s) /\ s[p - 1] = NL)

\* s holds the tokens toks from position p on
HasAt(s, p, toks) ==
    /\ p >= 1
    /\ p + Len(toks) - 1 <= Len(s)
    /\ \A k \in 1..Len(toks) : s[p + k - 1] = toks[k]

\* \d{4}-\d{2}-\d{2} matches at position p
DateAt(s, p) ==
    /\ p >= 1
    /\ p + 4 <= Len(s)
    /\ s[p] \in Digits4
    /\ s[p + 1] = "-"
    /\ s[p + 2] \in Digits2
    /\ s[p + 3] = "-"
    /\ s[p + 4] \in Digits2

RECURSIVE SkipWhitespace(_, _)
\* the first position >= p that holds no whitespace (Len(s) + 1 if none): \s*
SkipWhitespace(s, p) ==
    IF p <= Len(s) /\ Whitespace(s[p]) THEN SkipWhitespace(s, p + 1) ELSE p

RECURSIVE FindToken(_, _, _)
\* the first position >= p that holds token t (Len(s) + 1 if none)
FindToken(s, p, t) ==
    IF p > Len(s) \/ s[p] = t THEN p ELSE FindToken(s, p + 1, t)

RECURSIVE SplitFrom(_, _)
SplitFrom(s, p) ==
    LET q == FindToken(s, p, NL)
    IN  IF q > Len(s) THEN << SubSeq(s, p, Len(s)) >>
        ELSE << SubSeq(s, p, q - 1) >> \o SplitFrom(s, q + 1)

\* str.splitlines(): no last empty piece, and no piece at all for an empty text
SplitLines(s) ==
    LET ls == SplitFrom(s, 1)
    IN  IF ls[Len(ls)] = <<>> THEN SubSeq(ls, 1, Len(ls) - 1) ELSE ls

\* str.split('\n'): always at least one piece
Split(s) == SplitFrom(s, 1)

-----------------------------------------------------------------------------
(* Diagnostics and printed lines *)

\* A message: its format string and the values interpolated into it.
Msg(text, a, b) == [text |-> text, a |-> a, b |-> b]

HeaderError == Msg("First line must be '# Changelog'", <<>>, <<>>)
KeepAChangelogWarning == Msg("Missing Keep a Changelog reference", <<>>, <<>>)
SemverWarning == Msg("Missing Semantic Versioning reference", <<>>, <<>>)
NoSectionsError ==
    Msg("No version sections found (expected at least ## [Unreleased])", <<>>, <<>>)
MissingUnreleasedError == Msg("Missing ## [Unreleased] section", <<>>, <<>>)
MissingDateWarning(version) == Msg("Version [{version}] is missing a date", version, <<>>)
InvalidDateError(version, date) ==
    Msg("Version [{version}] has invalid date format: {date} (expected YYYY-MM-DD)",
        version, date)
NoCategoriesWarning ==
    Msg("[Unreleased] section has no categories (Added/Changed/Fixed/etc.)", <<>>, <<>>)
InvalidCategoriesWarning(names) == Msg("Invalid categories in [Unreleased]: {}", names, <<>>)
ValidCategoriesWarning == Msg("Valid categories: {}", VALID_CATEGORIES, <<>>)
EmptyUnreleasedWarning ==
    Msg("[Unreleased] section appears to be empty (no bullet points)", <<>>, <<>>)
ListMarkerWarning == Msg("Use '- ' for lists, not '* ' or '+ '", <<>>, <<>>)
MissingLinkWarning == Msg("Missing comparison link for [Unreleased]", <<>>, <<>>)
NotFoundMessage == Msg("CHANGELOG.md not found", <<>>, <<>>)
FailedStatus == Msg("CHANGELOG.md validation failed", <<>>, <<>>)
WarningsStatus == Msg("CHANGELOG.md has warnings but is valid", <<>>, <<>>)
ValidStatus == Msg("CHANGELOG.md format is valid", <<>>, <<>>)
Banner == Msg("Validating CHANGELOG.md format...", <<>>, <<>>)
Empty == Msg("", <<>>, <<>>)

\* error(msg), warning(msg), success(msg) and the bare print(...)
error(msg) == [fn |-> "error", msg |-> msg]
warning(msg) == [fn |-> "warning", msg |-> msg]
success(msg) == [fn |-> "success", msg |-> msg]
print(msg) == [fn |-> "print", msg |-> msg]

-----------------------------------------------------------------------------
(* 1.-3. header and references *)

\* if not lines[0].startswith('# Changelog')
HeaderErrors(ls) ==
    IF Len(ls[1]) >= 1 /\ ls[1][1] = "# Changelog" THEN <<>> ELSE <<HeaderError>>

\* needle in content
Contains(s, needle) == \E p \in 1..Len(s) : s[p] = needle

ReferenceWarnings(s) ==
    (IF ~Contains(s, "keepachangelog.com") THEN <<KeepAChangelogWarning>> ELSE <<>>)
    \o (IF ~Contains(s, "semver.org") THEN <<SemverWarning>> ELSE <<>>)

-----------------------------------------------------------------------------
(* 4. version sections *)

\* One attempt of version_pattern at position p:
\*   ^## \[([^\]]+)\](?:\s+-\s+(\d{4}-\d{2}-\d{2}))?
VersionMatchAt(s, p) ==
    LET q == FindToken(s, p + 1, "]")
        a == SkipWhitespace(s, q + 1)
        b == SkipWhitespace(s, a + 1)
        dated == /\ a > q + 1
                 /\ a <= Len(s)
                 /\ s[a] = "-"
                 /\ b > a + 1
                 /\ DateAt(s, b)
    IN  IF /\ AtLineStart(s, p)
           /\ p <= Len(s)
           /\ s[p] = "## ["
           /\ q <= Len(s)
           /\ q > p + 1
        THEN [ok |-> TRUE, start |-> p,
              version |-> SubSeq(s, p + 1, q - 1),
              date |-> IF dated THEN SubSeq(s, b, b + 4) ELSE <<>>,
              end |-> IF dated THEN b + 4 ELSE q]
        ELSE [ok |-> FALSE, start |-> p, version |-> <<>>, date |-> <<>>, end |-> p]

RECURSIVE ScanVersions(_, _)
\* the non-overlapping matches of version_pattern from position p on
ScanVersions(s, p) ==
    IF p > Len(s) THEN <<>>
    ELSE LET m == VersionMatchAt(s, p)
         IN  IF m.ok THEN <<m>> \o ScanVersions(s, m.end + 1)
             ELSE ScanVersions(s, p + 1)

\* version_pattern.findall(content)
FindVersions(s) ==
    LET ms == ScanVersions(s, 1)
    IN  [k \in 1..Len(ms) |-> <<ms[k][ "version" ], ms[k][ "date" ]>>]

\* any(v[0] == 'Unreleased' for v in versions)
AnyUnreleased(vs) == \E k \in 1..Len(vs) : vs[k][1] = <<"Unreleased">>

RECURSIVE DateErrors(_)
\* the errors of the for loop over versions
DateErrors(vs) ==
    IF vs = <<>> THEN <<>>
    ELSE LET version == vs[1][1]
             date == vs[1][2]
         IN  (IF date # <<>> /\ ~DateAt(date, 1)
              THEN <<InvalidDateError(version, date)>> ELSE <<>>)
             \o DateErrors(Tail(vs))

RECURSIVE DateWarnings(_)
\* the warnings of the for loop over versions
DateWarnings(vs) ==
    IF vs = <<>> THEN <<>>
    ELSE LET version == vs[1][1]
             date == vs[1][2]
         IN  (IF version # <<"Unreleased">> /\ date = <<>>
              THEN <<MissingDateWarning(version)>> ELSE <<>>)
             \o DateWarnings(Tail(vs))

SectionErrorsNoElse(vs) ==
    (IF vs = <<>> THEN <<NoSectionsError>> ELSE <<>>)
    \o (IF ~AnyUnreleased(vs) THEN <<MissingUnreleasedError>> ELSE <<>>)
    \o DateErrors(vs)

SectionErrors(vs) ==
    IF vs = <<>> THEN <<NoSectionsError>>
    ELSE (IF ~AnyUnreleased(vs) THEN <<MissingUnreleasedError>> ELSE <<>>)
         \o DateErrors(vs)

SectionWarnings(vs) == IF vs = <<>> THEN <<>> ELSE DateWarnings(vs)

-----------------------------------------------------------------------------
(* 5. categories under [Unreleased] *)

RECURSIVE SearchUnreleased(_, _)
\* re.search finds the leftmost '## [Unreleased]', anywhere in a line; 0 if none
SearchUnreleased(s, p) ==
    IF p > Len(s) THEN 0
    ELSE IF HasAt(s, p, <<"## [", "Unreleased", "]">>) THEN p
    ELSE SearchUnreleased(s, p + 1)

RECURSIVE LazyEnd(_, _)
\* (.*?)(?=## \[|$) under re.DOTALL: the group grows until '## [' follows, or the
\* end of the text, or the newline that ends the text
LazyEnd(s, k) ==
    IF \/ k > Len(s)
       \/ s[k] = "## ["
       \/ (k = Len(s) /\ s[k] = NL)
    THEN k
    ELSE LazyEnd(s, k + 1)

\* unreleased_match.group(1), given the position of the match
UnreleasedContent(s, p) == SubSeq(s, p + 3, LazyEnd(s, p + 3) - 1)

RECURSIVE ScanCategories(_, _)
\* category_pattern.findall: ^### (\w+) under re.MULTILINE
ScanCategories(body, k) ==
    IF k > Len(body) THEN <<>>
    ELSE (IF /\ AtLineStart(body, k)
             /\ body[k] = "### "
             /\ k + 1 <= Len(body)
             /\ Word(body[k + 1])
          THEN <<body[k + 1]>> ELSE <<>>)
         \o ScanCategories(body, k + 1)

FindCategories(body) == ScanCategories(body, 1)

InList(x, seq) == \E k \in 1..Len(seq) : seq[k] = x

\* [c for c in categories if c not in VALID_CATEGORIES]
InvalidCategories(categories) ==
    SelectSeq(categories, LAMBDA c : ~InList(c, VALID_CATEGORIES))

\* bool(re.search(r'^- \S', unreleased_content, re.MULTILINE))
HasEntries(body) ==
    \E k \in 1..Len(body) :
        /\ AtLineStart(body, k)
        /\ HasAt(body, k, <<"-", " ">>)
        /\ k + 2 <= Len(body)
        /\ ~Whitespace(body[k + 2])

ContentWarningsFlat(body) ==
    LET categories == FindCategories(body)
        invalid_categories == InvalidCategories(categories)
    IN  (IF categories = <<>> THEN <<NoCategoriesWarning>>
         ELSE IF invalid_categories # <<>>
         THEN <<InvalidCategoriesWarning(invalid_categories), ValidCategoriesWarning>>
         ELSE <<>>)
        \o (IF ~HasEntries(body) THEN <<EmptyUnreleasedWarning>> ELSE <<>>)

\* the warnings of the block under `if unreleased_match:`
ContentWarnings(body) ==
    LET categories == FindCategories(body)
        invalid_categories == InvalidCategories(categories)
    IN  IF categories = <<>> THEN <<NoCategoriesWarning>>
        ELSE (IF invalid_categories # <<>>
              THEN <<InvalidCategoriesWarning(invalid_categories), ValidCategoriesWarning>>
              ELSE <<>>)
             \o (IF ~HasEntries(body) THEN <<EmptyUnreleasedWarning>> ELSE <<>>)

UnreleasedWarnings(s) ==
    LET p == SearchUnreleased(s, 1)
    IN  IF p = 0 THEN <<>> ELSE ContentWarnings(UnreleasedContent(s, p))

-----------------------------------------------------------------------------
(* 6.-7. list markers and comparison links *)

\* re.search(r'^[\*\+] ', content, re.MULTILINE)
ListWarnings(s) ==
    IF \E p \in 1..Len(s) :
           AtLineStart(s, p) /\ (HasAt(s, p, <<"*", " ">>) \/ HasAt(s, p, <<"+", " ">>))
    THEN <<ListMarkerWarning>> ELSE <<>>

\* re.search(r'^\[Unreleased\]: https?://', content, re.MULTILINE)
HasUnreleasedLink(s) ==
    \E p \in 1..Len(s) :
        /\ AtLineStart(s, p)
        /\ \/ HasAt(s, p, <<"[", "Unreleased", "]", ": ", "https://">>)
           \/ HasAt(s, p, <<"[", "Unreleased", "]", ": ", "http://">>)

LinkWarningsAnyVersion(vs, s) ==
    IF Len(vs) >= 1 /\ ~HasUnreleasedLink(s) THEN <<MissingLinkWarning>> ELSE <<>>

\* if versions and len(versions) > 1: ...
LinkWarnings(vs, s) ==
    IF vs # <<>> /\ Len(vs) > 1 /\ ~HasUnreleasedLink(s)
    THEN <<MissingLinkWarning>> ELSE <<>>

-----------------------------------------------------------------------------
(* Reporting *)

FinalReportStrict(errs, warns) ==
    IF errs # <<>> THEN [printed |-> <<print(Empty), error(FailedStatus)>>, value |-> FALSE]
    ELSE IF warns # <<>>
    THEN [printed |-> <<print(Empty), warning(WarningsStatus)>>, value |-> FALSE]
    ELSE [printed |-> <<print(Empty), success(ValidStatus)>>, value |-> TRUE]

FinalReportQuiet(errs, warns) ==
    IF errs # <<>> THEN [printed |-> <<print(Empty), error(FailedStatus)>>, value |-> FALSE]
    ELSE [printed |-> <<print(Empty), success(ValidStatus)>>, value |-> TRUE]

\* what follows the two for loops: the status line and the returned value
FinalReport(errs, warns) ==
    IF errs # <<>> THEN [printed |-> <<print(Empty), error(FailedStatus)>>, value |-> FALSE]
    ELSE IF warns # <<>>
    THEN [printed |-> <<print(Empty), warning(WarningsStatus)>>, value |-> TRUE]
    ELSE [printed |-> <<print(Empty), success(ValidStatus)>>, value |-> TRUE]

ExitCodeOfBool(value) == IF value THEN 1 ELSE 0

\* sys.exit(0 if validate_changelog(changelog_path) else 1)
ExitCode(value) == IF value THEN 0 ELSE 1

-----------------------------------------------------------------------------
(* The program *)

Start(docs) ==
    /\ exists \in BOOLEAN
    /\ content \in (IF exists THEN docs ELSE {<<>>})
    /\ pc = "start"
    /\ lines = <<>>
    /\ errors = <<>>
    /\ warnings_list = <<>>
    /\ versions = <<>>
    /\ idx = 1
    /\ out = <<>>
    /\ ret = <<>>
    /\ exit_code = <<>>

Init == Start(Docs(ReportLines))
InitSections == Start(Docs(SectionLines))
InitLinks == Start(Docs(LinkLines))
InitUnreleased == Start(Docs(UnreleasedLines))

\* if not changelog_path.exists(): error(...); return False
NotFound ==
    /\ pc = "start"
    /\ ~exists
    /\ out' = Append(out, error(NotFoundMessage))
    /\ ret' = <<FALSE>>
    /\ pc' = "returned"
    /\ UNCHANGED <<exists, content, lines, errors, warnings_list, versions, idx, exit_code>>

\* content = read_text(); lines = content.split('\n'); print(banner)
ReadText ==
    /\ pc = "start"
    /\ exists
    /\ lines' = Split(content)
    /\ out' = Append(out, print(Banner))
    /\ pc' = "header"
    /\ UNCHANGED <<exists, content, errors, warnings_list, versions, idx, ret, exit_code>>

\* 1. lines[0] raises IndexError on an empty list
HeaderRule ==
    /\ pc = "header"
    /\ IF Len(lines) = 0
       THEN pc' = "raised" /\ UNCHANGED errors
       ELSE pc' = "references" /\ errors' = errors \o HeaderErrors(lines)
    /\ UNCHANGED <<exists, content, lines, warnings_list, versions, idx, out, ret, exit_code>>

\* 2. and 3.
ReferenceRules ==
    /\ pc = "references"
    /\ warnings_list' = warnings_list \o ReferenceWarnings(content)
    /\ pc' = "sections"
    /\ UNCHANGED <<exists, content, lines, errors, versions, idx, out, ret, exit_code>>

\* 4.
SectionRules ==
    /\ pc = "sections"
    /\ versions' = FindVersions(content)
    /\ errors' = errors \o SectionErrors(versions')
    /\ warnings_list' = warnings_list \o SectionWarnings(versions')
    /\ pc' = "unreleased"
    /\ UNCHANGED <<exists, content, lines, idx, out, ret, exit_code>>

\* 5.
UnreleasedRules ==
    /\ pc = "unreleased"
    /\ warnings_list' = warnings_list \o UnreleasedWarnings(content)
    /\ pc' = "lists"
    /\ UNCHANGED <<exists, content, lines, errors, versions, idx, out, ret, exit_code>>

\* 6.
ListRule ==
    /\ pc = "lists"
    /\ warnings_list' = warnings_list \o ListWarnings(content)
    /\ pc' = "links"
    /\ UNCHANGED <<exists, content, lines, errors, versions, idx, out, ret, exit_code>>

\* 7., then the print() that opens the results
LinkRule ==
    /\ pc = "links"
    /\ warnings_list' = warnings_list \o LinkWarnings(versions, content)
    /\ out' = Append(out, print(Empty))
    /\ idx' = 1
    /\ pc' = "warnings"
    /\ UNCHANGED <<exists, content, lines, errors, versions, ret, exit_code>>

\* one turn of: for warning_msg in warnings_list: warning(warning_msg)
PrintWarning ==
    /\ pc = "warnings"
    /\ idx <= Len(warnings_list)
    /\ out' = Append(out, warning(warnings_list[idx]))
    /\ idx' = idx + 1
    /\ UNCHANGED <<exists, content, pc, lines, errors, warnings_list, versions, ret, exit_code>>

\* the warnings loop ends; if errors: print()
WarningsDone ==
    /\ pc = "warnings"
    /\ idx > Len(warnings_list)
    /\ idx' = 1
    /\ IF errors # <<>>
       THEN out' = Append(out, print(Empty)) /\ pc' = "errors"
       ELSE out' = out /\ pc' = "status"
    /\ UNCHANGED <<exists, content, lines, errors, warnings_list, versions, ret, exit_code>>

\* one turn of: for error_msg in errors: error(error_msg)
PrintError ==
    /\ pc = "errors"
    /\ idx <= Len(errors)
    /\ out' = Append(out, error(errors[idx]))
    /\ idx' = idx + 1
    /\ UNCHANGED <<exists, content, pc, lines, errors, warnings_list, versions, ret, exit_code>>

\* the status line and the return
PrintStatus ==
    /\ \/ pc = "status"
       \/ pc = "errors" /\ idx > Len(errors)
    /\ out' = out \o FinalReport(errors, warnings_list).printed
    /\ ret' = <<FinalReport(errors, warnings_list).value>>
    /\ pc' = "returned"
    /\ UNCHANGED <<exists, content, lines, errors, warnings_list, versions, idx, exit_code>>

\* sys.exit(...)
Exit ==
    /\ pc = "returned"
    /\ exit_code' = <<ExitCode(ret[1])>>
    /\ pc' = "exited"
    /\ UNCHANGED <<exists, content, lines, errors, warnings_list, versions, idx, out, ret>>

Next ==
    \/ NotFound
    \/ ReadText
    \/ HeaderRule
    \/ ReferenceRules
    \/ SectionRules
    \/ UnreleasedRules
    \/ ListRule
    \/ LinkRule
    \/ PrintWarning
    \/ WarningsDone
    \/ PrintError
    \/ PrintStatus
    \/ Exit

Spec == Init /\ [][Next]_vars
SpecSections == InitSections /\ [][Next]_vars
SpecLinks == InitLinks /\ [][Next]_vars
SpecUnreleased == InitUnreleased /\ [][Next]_vars

-----------------------------------------------------------------------------
(* Properties *)

\* every rule has been evaluated
RulesDone == exists /\ pc \in {"warnings", "errors", "status", "returned", "exited"}

\* the first line of the file starts with '# Changelog'
FirstLineIsTitle == content # <<>> /\ content[1] = "# Changelog"

\* The version sections of the text, as the section extractor finds them, with the
\* positions of their headers.
Sections == ScanVersions(content, 1)

\* The body of section k: from the end of its header to the next header or the end.
SectionBody(k) ==
    SubSeq(content, Sections[k][ "end" ] + 1,
           IF k < Len(Sections) THEN Sections[k + 1][ "start" ] - 1 ELSE Len(content))

IsUnreleasedSection(k) == Sections[k][ "version" ] = <<"Unreleased">>

\* the first section labelled Unreleased (0 if none)
UnreleasedSection ==
    IF \E k \in 1..Len(Sections) : IsUnreleasedSection(k)
    THEN CHOOSE k \in 1..Len(Sections) :
             /\ IsUnreleasedSection(k)
             /\ \A j \in 1..(k - 1) : ~IsUnreleasedSection(j)
    ELSE 0

HasText(seq, text) == \E k \in 1..Len(seq) : seq[k][ "text" ] = text

\* C1: for an existing file validate_changelog returns True exactly when errors is
\* empty, whatever warnings_list holds.
C1_VerdictIffNoErrors ==
    (exists /\ ret # <<>>) => (ret[1] <=> (errors = <<>>))

\* valid although there are warnings
C1_Witness ==
    exists /\ ret = <<TRUE>> /\ errors = <<>> /\ Len(warnings_list) >= 2

\* C3: for an existing file (the empty one too) whose first line does not start with
\* '# Changelog' the header Error is in errors and the verdict is False, nothing is
\* raised; when it does start with it the header Error is not added.
C3_HeaderRule ==
    /\ pc # "raised"
    /\ (exists /\ pc \notin {"start", "header"})
          => (InList(HeaderError, errors) <=> ~FirstLineIsTitle)
    /\ (exists /\ ret # <<>> /\ ~FirstLineIsTitle) => ret = <<FALSE>>

\* the empty file is rejected with the header Error
C3_Witness ==
    /\ exists
    /\ content = <<>>
    /\ pc = "exited"
    /\ ret = <<FALSE>>
    /\ InList(HeaderError, errors)

\* C4: no version section found: the 'no version sections found' Error, no
\* missing-Unreleased Error and no date diagnostics; sections found but none labelled
\* Unreleased: the missing-Unreleased Error; a section labelled Unreleased: neither.
C4_SectionErrorsExclusive ==
    RulesDone =>
       /\ versions = <<>> =>
             /\ InList(NoSectionsError, errors)
             /\ ~InList(MissingUnreleasedError, errors)
             /\ ~HasText(errors, InvalidDateError(<<>>, <<>>).text)
             /\ ~HasText(warnings_list, MissingDateWarning(<<>>).text)
       /\ (versions # <<>> /\ \A k \in 1..Len(versions) : versions[k][1] # <<"Unreleased">>) =>
             /\ InList(MissingUnreleasedError, errors)
             /\ ~InList(NoSectionsError, errors)
       /\ (\E k \in 1..Len(versions) : versions[k][1] = <<"Unreleased">>) =>
             /\ ~InList(MissingUnreleasedError, errors)
             /\ ~InList(NoSectionsError, errors)

\* sections were found, none of them Unreleased
C4_Witness ==
    /\ pc = "exited"
    /\ exists
    /\ Len(versions) >= 2
    /\ InList(MissingUnreleasedError, errors)
    /\ ~InList(NoSectionsError, errors)

\* some line of the text begins with '[Unreleased]: http://' or '[Unreleased]: https://'
SomeLineIsUnreleasedLink ==
    \E k \in 1..Len(Split(content)) :
        LET line == Split(content)[k]
        IN  /\ Len(line) >= 5
            /\ SubSeq(line, 1, 4) = <<"[", "Unreleased", "]", ": ">>
            /\ line[5] \in {"http://", "https://"}

\* C6: the missing-comparison-link Warning is in warnings_list exactly when at least
\* two version sections were found and no line begins with the Unreleased link.
C6_LinkWarningIff ==
    RulesDone =>
        (InList(MissingLinkWarning, warnings_list)
            <=> (Len(versions) >= 2 /\ ~SomeLineIsUnreleasedLink))

\* two sections, a link line for another label or inside a line, and the Warning
C6_Witness ==
    /\ pc = "exited"
    /\ Len(versions) >= 2
    /\ Contains(content, "https://")
    /\ InList(MissingLinkWarning, warnings_list)

IsStatusLine(e) == e.msg \in {FailedStatus, WarningsStatus, ValidStatus}
IsWarningMessage(e) == e.fn = "warning" /\ ~IsStatusLine(e)
IsErrorMessage(e) == e.fn = "error" /\ ~IsStatusLine(e)

\* the status line the claim asks for
ExpectedStatus ==
    IF errors # <<>> THEN error(FailedStatus)
    ELSE IF warnings_list # <<>> THEN warning(WarningsStatus)
    ELSE success(ValidStatus)

\* what was printed, without the banner and the empty lines
Messages == SelectSeq(out, LAMBDA e : e.fn # "print")

C7_Ordered ==
    exists =>
       /\ \A i \in 1..Len(out) : \A j \in (i + 1)..Len(out) :
             /\ ~IsStatusLine(out[i])
             /\ ~(IsErrorMessage(out[i]) /\ IsWarningMessage(out[j]))
       /\ ret = <<>> => \A i \in 1..Len(out) : ~IsStatusLine(out[i])
       /\ ret # <<>> =>
             /\ Messages = [k \in 1..Len(warnings_list) |-> warning(warnings_list[k])]
                           \o [k \in 1..Len(errors) |-> error(errors[k])]
                           \o <<ExpectedStatus>>
             /\ ret[1] = (errors = <<>>)

C7_RenderingKeepsDiagnostics ==
    pc \in {"warnings", "errors", "status"} =>
        (errors' = errors /\ warnings_list' = warnings_list)

\* C7: on an existing file every warning message is printed before any error message,
\* every error message before the status line, exactly one status line is printed and
\* it is last; it is 'validation failed' iff errors is non-empty, 'valid with warnings'
\* iff errors is empty and warnings_list is not, 'valid' iff both are empty; printing
\* changes neither list, and the returned value is errors being empty.
C7_OutputOrder == [](C7_Ordered) /\ [][C7_RenderingKeepsDiagnostics]_vars

\* warnings, then errors, then 'validation failed'
C7_Witness ==
    /\ pc = "exited"
    /\ exists
    /\ Len(warnings_list) >= 2
    /\ Len(errors) >= 2
    /\ out[Len(out)] = error(FailedStatus)

\* C8: a missing file is reported by exactly one Error message: no rule is evaluated,
\* no warning and no status line are printed, the value returned is False and the exit
\* code 1; the exit code is 0 exactly when validate_changelog returned True.
C8_MissingFile ==
    /\ ~exists =>
          /\ pc \in {"start", "returned", "exited"}
          /\ errors = <<>>
          /\ warnings_list = <<>>
          /\ pc = "start" => out = <<>>
          /\ pc # "start" => (out = <<error(NotFoundMessage)>> /\ ret = <<FALSE>>)
          /\ pc = "exited" => exit_code = <<1>>
    /\ exit_code # <<>> =>
          /\ exit_code \in {<<0>>, <<1>>}
          /\ exit_code = <<0>> <=> ret = <<TRUE>>

\* the process has exited with 1 on a missing file
C8_Witness ==
    ~exists /\ pc = "exited" /\ exit_code = <<1>> /\ Len(out) = 1

\* the header of section k carries a date string after ' - '
CarriesDateString(k) ==
    LET q == Sections[k][ "start" ] + Len(Sections[k][ "version" ]) + 1
    IN  /\ HasAt(content, q + 1, <<" ", "-", " ">>)
        /\ q + 4 <= Len(content)
        /\ content[q + 4] # NL

\* that string matches four digits, dash, two digits, dash, two digits
DateStringWellFormed(k) ==
    DateAt(content, Sections[k][ "start" ] + Len(Sections[k][ "version" ]) + 5)

DateErrorNames(version) ==
    \E k \in 1..Len(errors) :
        /\ errors[k][ "text" ] = InvalidDateError(<<>>, <<>>).text
        /\ errors[k][ "a" ] = version

\* C2: for every version section not labelled Unreleased: a date string after ' - '
\* that is not YYYY-MM-DD gives a date-format Error naming the version and the verdict
\* False; no date at all gives the missing-date Warning naming the version and no Error.
C2_DateDiagnostics ==
    RulesDone =>
        \A k \in 1..Len(Sections) :
            ~IsUnreleasedSection(k) =>
               /\ (CarriesDateString(k) /\ ~DateStringWellFormed(k)) =>
                     /\ DateErrorNames(Sections[k][ "version" ])
                     /\ ret # <<>> => ret = <<FALSE>>
               /\ ~CarriesDateString(k) =>
                     /\ InList(MissingDateWarning(Sections[k][ "version" ]), warnings_list)
                     /\ ~DateErrorNames(Sections[k][ "version" ])

\* C5: an Unreleased section whose body holds no bullet entry line has the 'appears to
\* be empty' Warning, also when it holds no category block.
C5_EmptyUnreleasedWarned ==
    (RulesDone /\ UnreleasedSection # 0 /\ ~HasEntries(SectionBody(UnreleasedSection)))
        => InList(EmptyUnreleasedWarning, warnings_list)

\* the text the Unreleased-content rules examine (<<>> when they examine none)
ExaminedBody ==
    IF SearchUnreleased(content, 1) = 0 THEN <<>>
    ELSE UnreleasedContent(content, SearchUnreleased(content, 1))

\* C5, amended: when the examined Unreleased text holds at least one category header
\* and no bullet entry line, the 'appears to be empty' Warning is in warnings_list;
\* when it holds no category header, the 'no categories' Warning is there and the
\* 'appears to be empty' Warning is not.
C5_EmptyWarnedUnderCategories ==
    (RulesDone /\ SearchUnreleased(content, 1) # 0) =>
       /\ (FindCategories(ExaminedBody) # <<>> /\ ~HasEntries(ExaminedBody))
             => InList(EmptyUnreleasedWarning, warnings_list)
       /\ FindCategories(ExaminedBody) = <<>> =>
             /\ InList(NoCategoriesWarning, warnings_list)
             /\ ~InList(EmptyUnreleasedWarning, warnings_list)

\* a category block without entries is warned about
C5_Witness ==
    /\ pc = "exited"
    /\ UnreleasedSection # 0
    /\ FindCategories(SectionBody(UnreleasedSection)) # <<>>
    /\ ~HasEntries(SectionBody(UnreleasedSection))
    /\ InList(EmptyUnreleasedWarning, warnings_list)

\* the category names of the Unreleased section that are none of the six
SectionInvalidNames ==
    SelectSeq(FindCategories(SectionBody(UnreleasedSection)),
              LAMBDA c : c \notin {"Added", "Changed", "Deprecated", "Removed",
                                   "Fixed", "Security"})

\* C9: an Unreleased section with at least one category block: if some names are none
\* of the six valid ones, one Warning lists exactly those names in file order and the
\* next Warning lists the six valid names; otherwise neither Warning is there.
C9_InvalidCategoriesListed ==
    (/\ RulesDone
     /\ UnreleasedSection # 0
     /\ FindCategories(SectionBody(UnreleasedSection)) # <<>>)
        => IF SectionInvalidNames # <<>>
           THEN \E k \in 1..(Len(warnings_list) - 1) :
                    /\ warnings_list[k] = InvalidCategoriesWarning(SectionInvalidNames)
                    /\ warnings_list[k + 1] = ValidCategoriesWarning
           ELSE /\ ~HasText(warnings_list, InvalidCategoriesWarning(<<>>).text)
                /\ ~HasText(warnings_list, ValidCategoriesWarning.text)

UnreleasedContentTexts ==
    {NoCategoriesWarning.text, InvalidCategoriesWarning(<<>>).text,
     ValidCategoriesWarning.text, EmptyUnreleasedWarning.text}

\* the Unreleased-content Warnings that were emitted, in order
EmittedContentWarnings ==
    SelectSeq(warnings_list, LAMBDA w : w.text \in UnreleasedContentTexts)

\* C10: the Unreleased-content Warnings are emitted only when the section extractor
\* found a section labelled Unreleased, never together with the 'no version sections
\* found' or the missing-Unreleased Error, and they are those of that section's body,
\* which ends at the next version header line or the end of the file.
C10_ContentWarningsOfSection ==
    RulesDone =>
       /\ EmittedContentWarnings # <<>> =>
             /\ UnreleasedSection # 0
             /\ ~InList(NoSectionsError, errors)
             /\ ~InList(MissingUnreleasedError, errors)
       /\ UnreleasedSection # 0 =>
             EmittedContentWarnings = ContentWarnings(SectionBody(UnreleasedSection))

====
